---- MODULE Spec2Model ----
(***************************************************************************)
(* Model of the messaging backend: the relational tables of lib/db/orm.py   *)
(* and the transactional domain operations of lib/server.py (Server), run   *)
(* through DAO.access of lib/db/dao.py.                                     *)
(*                                                                         *)
(* Spec      : the domain operations run to completion one after another.   *)
(* SpecConc  : units of work of several pool workers interleave.  A unit of *)
(*             work that has changes pending is split in its read part      *)
(*             (the queries of do()) and its session.commit().              *)
(*                                                                         *)
(* SpecDAO   : DAO.access alone: units of work submitted to the executor,    *)
(*             taken by its threads, run by DAO._access inside a session or *)
(*             a connection, and their futures.  The unit of work is any    *)
(*             of the shapes the do() functions of lib/server.py have.      *)
(*                                                                         *)
(* SpecServer: the life of the Server object: Server.__init__ on a database  *)
(*             URL, then calls of start() and stop(), each awaited before   *)
(*             the next is made, as starter.py does.                        *)
(*                                                                         *)
(* The storage engine is the one the URLs of the repository name (MySQL):   *)
(* Integer primary keys are assigned on insert from a counter per table,    *)
(* and the ForeignKey columns are enforced when the session is flushed, a   *)
(* violation raising IntegrityError out of session.commit().  The tables    *)
(* declare no other constraint.                                             *)
(***************************************************************************)
EXTENDS Integers, Sequences, FiniteSets, TLC

\* ------------------------------------------------------------------ bounds
\* MaxRows  : rows inserted over the five tables
\* MaxReq   : length of the userId list of an add_to_group_chat request
\* PoolSize : threads of the executor of DAO
\* MaxUnits : units of work the pool runs in SpecConc, and units of work
\*            submitted to DAO.access in SpecDAO
\* MaxStarts: calls of Server.start that set up a runner, in SpecServer
MaxRows == 5
MaxReq == 2
PoolSize == 2
MaxUnits == 3
MaxStarts == 5

Workers == 1..PoolSize
\* the message texts a caller may post
Messages == {"hi"}
\* ids a caller may pass: each is unknown until the row with that id is inserted
UserIdArgs == {1, 2}
ChatIdArgs == {1, 2}
\* the userId lists a caller may pass, repeated ids included.  The list is only
\* read through set(users) (server.py line 226), so one list stands for all
\* its permutations: the nondecreasing one.
RECURSIVE SeqsUpTo(_, _)
SeqsUpTo(S, n) ==
    IF n = 0 THEN {<<>>}
    ELSE LET shorter == SeqsUpTo(S, n - 1)
         IN  shorter \cup {Append(s, x) : s \in {t \in shorter : Len(t) = n - 1}, x \in S}
UserLists ==
    {s \in SeqsUpTo(UserIdArgs, MaxReq) : \A i \in 1..(Len(s) - 1) : s[i] <= s[i + 1]}
\* the userId lists of the interleaved units of work: the interleaving is
\* what varies there, so lists of one id
ConcUserLists == {<<u>> : u \in UserIdArgs}
\* the chat the interleaved units of work address: units of work on different
\* chats read and write disjoint rows, so the races are those on one chat
ConcChatIdArgs == {1}

\* ------------------------------------------------------------------ state
VARIABLES
    User,               \* table User: set of ids (name is never read back)
    GroupChat,          \* table GroupChat: set of ids
    P2PMessage,         \* table P2PMessage: rows [id, message, origin_user_id, target_user_id]
    GroupChatMembers,   \* table GroupChatMembers: rows [id, user_id, group_chat_id]
    GroupChatMessage,   \* table GroupChatMessage: rows [id, message, group_chat_member_id]
    autoinc,            \* per table, the next value of its Integer primary key
    returned,           \* history: ids handed out by create_user / create_group_char
    last,               \* the outcome of the call that completed most recently
    txn,                \* per pool worker, the unit of work it is running
    begun,              \* number of units of work the pool workers have taken
    \* ---- DAO (SpecDAO)
    submitted,          \* the calls of DAO.access so far: sequence of [func, with_session]
    future,             \* per call, the future run_in_executor returned
    calls,              \* per call, how many times DAO._access called func
    executor,           \* ThreadPoolExecutor: work queue, threads started, idle semaphore
    worker,             \* per executor thread, the call of DAO._access it is in
    registry,           \* scoped_session: the Session of each scope, 0 when none yet
    handles,            \* the sessions and connections made so far, and those open
    store,              \* changes committed, and changes pending in a session
    \* ---- Server object (SpecServer)
    db_url,             \* cfg["db.url"], as the sequence of its parts
    database_up,        \* whether the database the URL names accepts the connection
    constructed,        \* "no", "yes", or the exception Server.__init__ raised
    started,            \* Server._started
    app_runner,         \* Server._app_runner: index in runners, 0 for None
    app_site,           \* Server._app_site: index in sites, 0 for None
    runners,            \* the AppRunner objects made so far
    sites               \* the TCPSite objects made so far

tables == <<User, GroupChat, P2PMessage, GroupChatMembers, GroupChatMessage>>
vars == <<User, GroupChat, P2PMessage, GroupChatMembers, GroupChatMessage,
          autoinc, returned, last, txn, begun,
          submitted, future, calls, executor, worker, registry, handles, store,
          db_url, database_up, constructed, started, app_runner, app_site, runners, sites>>
pool == <<txn, begun>>
lifecycle == <<db_url, database_up, constructed, started, app_runner, app_site, runners, sites>>
bridge == <<submitted, future, calls, executor, worker, registry, handles, store>>
server == <<User, GroupChat, P2PMessage, GroupChatMembers, GroupChatMessage,
            autoinc, returned, last, txn, begun>>

\* the executor threads that can come to exist: submit starts at most one
ThreadIds == 1..MaxUnits

Idle == [pc |-> "idle"]

Init ==
    /\ User = {}
    /\ GroupChat = {}
    /\ P2PMessage = {}
    /\ GroupChatMembers = {}
    /\ GroupChatMessage = {}
    /\ autoinc = [User |-> 1, GroupChat |-> 1, P2PMessage |-> 1,
                  GroupChatMembers |-> 1, GroupChatMessage |-> 1]
    /\ returned = [User |-> {}, GroupChat |-> {}]
    /\ last = [op |-> "none", args |-> <<>>, raised |-> FALSE, status |-> TRUE, data |-> "None"]
    /\ txn = [w \in Workers |-> Idle]
    /\ begun = 0
    /\ submitted = <<>>
    /\ future = <<>>
    /\ calls = <<>>
    /\ executor = [work_queue |-> <<>>, num_threads |-> 0, idle_semaphore |-> 0]
    /\ worker = [t \in ThreadIds |-> Idle]
    /\ registry = [t \in ThreadIds |-> 0]
    /\ handles = [next |-> 1, open |-> {}]
    /\ store = [committed |-> {}, pending |-> {}]
    /\ db_url = <<"mysql+pymysql", "://", "localhost", "/", "db">>
    /\ database_up = TRUE
    /\ constructed = "yes"
    /\ started = FALSE
    /\ app_runner = 0
    /\ app_site = 0
    /\ runners = <<>>
    /\ sites = <<>>

\* ---------------------------------------------------------------- helpers
Range(s) == {s[i] : i \in 1..Len(s)}

\* tuple(t[0] for t in res): the texts of the selected rows, with multiplicity
\* (no ORDER BY in the queries, so the order is not part of the result)
MessageTuple(rows) ==
    [t \in {r.message : r \in rows} |-> Cardinality({r \in rows : r.message = t})]

\* Server._construct_common_response
construct_common_response(status, data, error) ==
    [status |-> status, data |-> IF status THEN data ELSE error]

Returned(op, args, resp) ==
    [op |-> op, args |-> args, raised |-> FALSE, status |-> resp.status, data |-> resp.data]
Raised(op, args, exc) ==
    [op |-> op, args |-> args, raised |-> TRUE, status |-> FALSE, data |-> exc]

\* the error strings of the domain operations: the text and the ids put in it
ErrIdentifierNotExist(id) == [text |-> "Identifier %s does not exist", ids |-> {id}, chat |-> -1]
ErrNotMember(user_id, chat_id) == [text |-> "User %s is not a member of chat %s", ids |-> {user_id}, chat |-> chat_id]
ErrUnknownIdentifiers(ids) == [text |-> "Unknown identifiers [%s]", ids |-> ids, chat |-> -1]
ErrUsersInChat(ids, chat_id) == [text |-> "Users [%s] are in chat %s", ids |-> ids, chat |-> chat_id]
ErrUnknownIdentifier(id) == [text |-> "Unknown identifier %s", ids |-> {id}, chat |-> -1]

\* the primary key is not advanced: every insert gets the same value
NextId_Constant(table) == 1

\* the number of rows inserted so far, over the five tables
RowsInserted ==
    (autoinc.User - 1) + (autoinc.GroupChat - 1) + (autoinc.P2PMessage - 1)
        + (autoinc.GroupChatMembers - 1) + (autoinc.GroupChatMessage - 1)

\* the value an Integer primary key gets on insert
NextId(table) == autoinc[table]

\* the membership is looked up by user only: the chat of the row is not compared
MemberRows_AnyChat(user_id, group_chat_id) ==
    {m \in GroupChatMembers : m.user_id = user_id}

\* the membership rows of (user_id, group_chat_id)
MemberRows(user_id, group_chat_id) ==
    {m \in GroupChatMembers : m.user_id = user_id /\ m.group_chat_id = group_chat_id}

\* ForeignKey(GroupChatMembers.id) of GroupChatMessage: rows that reference a member
MessagesOfMember(member_id) ==
    {g \in GroupChatMessage : g.group_chat_member_id = member_id}

\* ------------------------------------------------- sequential operations
\* Server._create_user
create_user ==
    /\ RowsInserted < MaxRows
    /\ LET id == NextId("User") IN
        /\ User' = User \cup {id}
        /\ autoinc' = [autoinc EXCEPT !.User = id + 1]
        /\ returned' = [returned EXCEPT !.User = @ \cup {id}]
        /\ last' = Returned("create_user", <<>>, construct_common_response(TRUE, id, "None"))
    /\ UNCHANGED <<GroupChat, P2PMessage, GroupChatMembers, GroupChatMessage, pool, bridge, lifecycle>>

\* Server._create_group_char
create_group_char ==
    /\ RowsInserted < MaxRows
    /\ LET id == NextId("GroupChat") IN
        /\ GroupChat' = GroupChat \cup {id}
        /\ autoinc' = [autoinc EXCEPT !.GroupChat = id + 1]
        /\ returned' = [returned EXCEPT !.GroupChat = @ \cup {id}]
        /\ last' = Returned("create_group_char", <<>>, construct_common_response(TRUE, id, "None"))
    /\ UNCHANGED <<User, P2PMessage, GroupChatMembers, GroupChatMessage, pool, bridge, lifecycle>>

\* the id is looked up in both tables, whatever is_group says
TargetExists_EitherKind(uid, is_group) ==
    uid \in User \/ uid \in GroupChat

\* Server._get_messages.do, line 90-91: does the entity of the selected kind exist
TargetExists(uid, is_group) ==
    IF ~is_group THEN uid \in User ELSE uid \in GroupChat

\* the direct messages are selected by either end: origin or target
GetMessagesDo_EitherEnd(uid, is_group) ==
    IF ~is_group
    THEN MessageTuple({p \in P2PMessage : p.origin_user_id = uid \/ p.target_user_id = uid})
    ELSE MessageTuple({g \in GroupChatMessage :
             \E m \in GroupChatMembers :
                 m.id = g.group_chat_member_id /\ m.group_chat_id = uid})

\* Server._get_messages.do, line 93-99: the texts selected for an existing entity
GetMessagesDo(uid, is_group) ==
    IF ~is_group
    THEN MessageTuple({p \in P2PMessage : p.origin_user_id = uid})
    ELSE MessageTuple({g \in GroupChatMessage :
             \E m \in GroupChatMembers :
                 m.id = g.group_chat_member_id /\ m.group_chat_id = uid})

\* Server._get_messages, line 104-106: the response built from what do() returned
GetMessages(uid, is_group) ==
    last' = Returned("get_messages", <<uid, is_group>>,
                construct_common_response(TargetExists(uid, is_group),
                                          GetMessagesDo(uid, is_group),
                                          ErrIdentifierNotExist(uid)))

\* Server._get_messages
get_messages(uid, is_group) ==
    /\ GetMessages(uid, is_group)
    /\ UNCHANGED <<tables, autoinc, returned, pool, bridge, lifecycle>>

\* ---- the read part of the writing units of work: what do() decides from
\* ---- the rows it queries.  A plan is either an error string to return or
\* ---- the pending changes of the session that session.commit() will flush.
PlanError(res) == [kind |-> "error", res |-> res]

\* the target is checked before the user
PostPlans_TargetFirst(message, user_id, target_id, target_is_group_chat) ==
    IF ~target_is_group_chat
    THEN IF target_id \in User
         THEN IF user_id \in User
              THEN {[kind |-> "P2PMessage", message |-> message,
                     origin_user_id |-> user_id, target_user_id |-> target_id]}
              ELSE {PlanError(ErrIdentifierNotExist(user_id))}
         ELSE {PlanError(ErrIdentifierNotExist(target_id))}
    ELSE IF target_id \in GroupChat
         THEN IF user_id \in User
              THEN IF MemberRows(user_id, target_id) # {}
                   THEN {[kind |-> "GroupChatMessage", message |-> message,
                          group_chat_member_id |-> member.id] :
                             member \in MemberRows(user_id, target_id)}
                   ELSE {PlanError(ErrNotMember(user_id, target_id))}
              ELSE {PlanError(ErrIdentifierNotExist(user_id))}
         ELSE {PlanError(ErrIdentifierNotExist(target_id))}

\* a post to a group chat deletes the member row it found instead of
\* inserting a message under it
PostPlans_DeletesMember(message, user_id, target_id, target_is_group_chat) ==
    IF user_id \in User
    THEN IF ~target_is_group_chat
         THEN IF target_id \in User
              THEN {[kind |-> "P2PMessage", message |-> message,
                     origin_user_id |-> user_id, target_user_id |-> target_id]}
              ELSE {PlanError(ErrIdentifierNotExist(target_id))}
         ELSE IF target_id \in GroupChat
              THEN IF MemberRows(user_id, target_id) # {}
                   THEN {[kind |-> "delete", member_id |-> member.id] :
                             member \in MemberRows(user_id, target_id)}
                   ELSE {PlanError(ErrNotMember(user_id, target_id))}
              ELSE {PlanError(ErrIdentifierNotExist(target_id))}
    ELSE {PlanError(ErrIdentifierNotExist(user_id))}

\* Server._post_messages.do, lines 132-158 and 163-166
PostPlans(message, user_id, target_id, target_is_group_chat) ==
    IF user_id \in User
    THEN IF ~target_is_group_chat
         THEN IF target_id \in User
              THEN {[kind |-> "P2PMessage", message |-> message,
                     origin_user_id |-> user_id, target_user_id |-> target_id]}
              ELSE {PlanError(ErrIdentifierNotExist(target_id))}
         ELSE IF target_id \in GroupChat
              THEN IF MemberRows(user_id, target_id) # {}
                   \* .first() without ORDER BY: any of the matching rows
                   THEN {[kind |-> "GroupChatMessage", message |-> message,
                          group_chat_member_id |-> member.id] :
                             member \in MemberRows(user_id, target_id)}
                   ELSE {PlanError(ErrNotMember(user_id, target_id))}
              ELSE {PlanError(ErrIdentifierNotExist(target_id))}
    ELSE {PlanError(ErrIdentifierNotExist(user_id))}

\* Server._add_to_group_chat.do, line 232-237: the requested users that the
\* join of User and GroupChatMembers finds in the chat
ExUsers(add_users, group_chat_id) ==
    {u \in User : /\ u \in add_users
                  /\ \E m \in GroupChatMembers :
                        m.user_id = u /\ m.group_chat_id = group_chat_id}

\* every requested id is taken for a known user
UnknownUsers_None(users) == {}

\* Server._add_to_group_chat.do, line 225-227
UnknownUsers(users) == Range(users) \ User

\* the all_or_nothing flag is read the wrong way round
FailOnUnknown_Inverted(unknown_users, all_or_nothing) == unknown_users # {} /\ ~all_or_nothing

\* Server._add_to_group_chat.do, line 228
FailOnUnknown(unknown_users, all_or_nothing) == unknown_users # {} /\ all_or_nothing

\* existing members never fail the call: they are skipped also under all_or_nothing
FailOnExisting_Never(ex_users, all_or_nothing) == FALSE

\* existing members fail the call whatever all_or_nothing says
FailOnExisting_Always(ex_users, all_or_nothing) == ex_users # {}

\* Server._add_to_group_chat.do, line 238
FailOnExisting(ex_users, all_or_nothing) == ex_users # {} /\ all_or_nothing

\* the existing members are not dropped from the users to insert
UsersToInsert_KeepExisting(add_users, ex_users) == add_users

\* Server._add_to_group_chat.do, line 241
UsersToInsert(add_users, ex_users) == add_users \ ex_users

\* Server._add_to_group_chat.do, lines 223-248
AddPlan(group_chat_id, users, all_or_nothing) ==
    IF group_chat_id \in GroupChat
    THEN LET unknown_users == UnknownUsers(users)
         IN  IF FailOnUnknown(unknown_users, all_or_nothing)
             THEN PlanError(ErrUnknownIdentifiers(unknown_users))
             ELSE LET add_users == Range(users) \ unknown_users
                      ex_users == ExUsers(add_users, group_chat_id)
                  IN  IF FailOnExisting(ex_users, all_or_nothing)
                      THEN PlanError(ErrUsersInChat(ex_users, group_chat_id))
                      ELSE [kind |-> "GroupChatMembers",
                            add_users |-> UsersToInsert(add_users, ex_users),
                            group_chat_id |-> group_chat_id]
    ELSE PlanError(ErrUnknownIdentifier(group_chat_id))

\* the user is looked up before the chat
DelPlans_UserFirst(group_chat_id, user_id) ==
    IF user_id \in User
    THEN IF group_chat_id \in GroupChat
         THEN IF MemberRows(user_id, group_chat_id) # {}
              THEN {[kind |-> "delete", member_id |-> member.id] :
                        member \in MemberRows(user_id, group_chat_id)}
              ELSE {PlanError(ErrNotMember(user_id, group_chat_id))}
         ELSE {PlanError(ErrUnknownIdentifier(group_chat_id))}
    ELSE {PlanError(ErrUnknownIdentifier(user_id))}

\* Server._del_from_group_chat.do, lines 268-285
DelPlans(group_chat_id, user_id) ==
    IF group_chat_id \in GroupChat
    THEN IF user_id \in User
         THEN IF MemberRows(user_id, group_chat_id) # {}
              THEN {[kind |-> "delete", member_id |-> member.id] :
                        member \in MemberRows(user_id, group_chat_id)}
              ELSE {PlanError(ErrNotMember(user_id, group_chat_id))}
         ELSE {PlanError(ErrUnknownIdentifier(user_id))}
    ELSE {PlanError(ErrUnknownIdentifier(group_chat_id))}

\* ---- session.commit(): flush the pending changes and commit them
\* rows inserted for add_users; the ids follow the iteration order of the
\* Python set, ascending for the small ids used here
\* two rows are inserted for every user to add
NewMemberRows_Twice(add_users, group_chat_id, first_id) ==
    {[id |-> first_id + k, user_id |-> u, group_chat_id |-> group_chat_id] :
        u \in add_users, k \in {0, MaxRows}}

RECURSIVE NewMemberRows(_, _, _)
NewMemberRows(add_users, group_chat_id, first_id) ==
    IF add_users = {} THEN {}
    ELSE LET u == CHOOSE x \in add_users : \A y \in add_users : x <= y
         IN  {[id |-> first_id, user_id |-> u, group_chat_id |-> group_chat_id]}
             \cup NewMemberRows(add_users \ {u}, group_chat_id, first_id + 1)

\* the storage engine does not enforce the ForeignKey columns
FlushViolatesForeignKey_NotEnforced(plan) == FALSE

\* the ForeignKey columns of orm.py, enforced by the storage engine on flush
FlushViolatesForeignKey(plan) ==
    CASE plan.kind = "P2PMessage" ->
            plan.origin_user_id \notin User \/ plan.target_user_id \notin User
      [] plan.kind = "GroupChatMessage" ->
            plan.group_chat_member_id \notin {m.id : m \in GroupChatMembers}
      [] plan.kind = "GroupChatMembers" ->
            plan.add_users # {} /\
            (plan.group_chat_id \notin GroupChat \/ ~(plan.add_users \subseteq User))
      [] plan.kind = "delete" ->
            MessagesOfMember(plan.member_id) # {}

\* room left under MaxRows for the rows the plan inserts
WithinBounds(plan) ==
    CASE plan.kind = "GroupChatMembers" ->
            RowsInserted + Cardinality(plan.add_users) <= MaxRows
      [] plan.kind = "delete" -> TRUE
      [] OTHER -> RowsInserted < MaxRows

\* the effect of session.commit() on the tables, when no constraint is violated
Commit(plan) ==
    CASE plan.kind = "P2PMessage" ->
            /\ P2PMessage' = P2PMessage \cup
                  {[id |-> NextId("P2PMessage"), message |-> plan.message,
                    origin_user_id |-> plan.origin_user_id,
                    target_user_id |-> plan.target_user_id]}
            /\ autoinc' = [autoinc EXCEPT !.P2PMessage = @ + 1]
            /\ UNCHANGED <<User, GroupChat, GroupChatMembers, GroupChatMessage>>
      [] plan.kind = "GroupChatMessage" ->
            /\ GroupChatMessage' = GroupChatMessage \cup
                  {[id |-> NextId("GroupChatMessage"), message |-> plan.message,
                    group_chat_member_id |-> plan.group_chat_member_id]}
            /\ autoinc' = [autoinc EXCEPT !.GroupChatMessage = @ + 1]
            /\ UNCHANGED <<User, GroupChat, P2PMessage, GroupChatMembers>>
      [] plan.kind = "GroupChatMembers" ->
            /\ GroupChatMembers' = GroupChatMembers \cup
                  NewMemberRows(plan.add_users, plan.group_chat_id, NextId("GroupChatMembers"))
            /\ autoinc' = [autoinc EXCEPT !.GroupChatMembers = @ + Cardinality(plan.add_users)]
            /\ UNCHANGED <<User, GroupChat, P2PMessage, GroupChatMessage>>
      [] plan.kind = "delete" ->
            /\ GroupChatMembers' = {m \in GroupChatMembers : m.id # plan.member_id}
            /\ UNCHANGED <<User, GroupChat, P2PMessage, GroupChatMessage, autoinc>>

\* the ids inserted are not reported: the add returns an empty tuple
PlanResult_Empty(plan) ==
    IF plan.kind = "GroupChatMembers" THEN {} ELSE "None"

\* what do() returns after a successful commit
PlanResult(plan) ==
    IF plan.kind = "GroupChatMembers" THEN plan.add_users ELSE "None"

\* the rest of a unit of work once its plan is known, and the response of the
\* operation: an error string returned, IntegrityError raised out of
\* session.commit(), or the commit and the success value
Finish(op, args, plan) ==
    IF plan.kind = "error"
    THEN /\ last' = Returned(op, args, construct_common_response(FALSE, "None", plan.res))
         /\ UNCHANGED <<tables, autoinc>>
    ELSE IF FlushViolatesForeignKey(plan)
    THEN /\ last' = Raised(op, args, "IntegrityError")
         /\ UNCHANGED <<tables, autoinc>>
    ELSE /\ WithinBounds(plan)
         /\ Commit(plan)
         /\ last' = Returned(op, args, construct_common_response(TRUE, PlanResult(plan), "None"))

\* Server._post_messages
post_messages(message, user_id, target_id, target_is_group_chat) ==
    /\ \E plan \in PostPlans(message, user_id, target_id, target_is_group_chat) :
          Finish("post_messages", <<message, user_id, target_id, target_is_group_chat>>, plan)
    /\ UNCHANGED <<returned, pool, bridge, lifecycle>>

\* Server._add_to_group_chat
add_to_group_chat(group_chat_id, users, all_or_nothing) ==
    /\ Finish("add_to_group_chat", <<group_chat_id, users, all_or_nothing>>,
              AddPlan(group_chat_id, users, all_or_nothing))
    /\ UNCHANGED <<returned, pool, bridge, lifecycle>>

\* Server._del_from_group_chat
del_from_group_chat(group_chat_id, user_id) ==
    /\ \E plan \in DelPlans(group_chat_id, user_id) :
          Finish("del_from_group_chat", <<group_chat_id, user_id>>, plan)
    /\ UNCHANGED <<returned, pool, bridge, lifecycle>>

Next ==
    \/ create_user
    \/ create_group_char
    \/ \E uid \in UserIdArgs \cup ChatIdArgs, is_group \in BOOLEAN : get_messages(uid, is_group)
    \/ \E message \in Messages, user_id \in UserIdArgs, target_id \in UserIdArgs \cup ChatIdArgs,
          target_is_group_chat \in BOOLEAN :
          post_messages(message, user_id, target_id, target_is_group_chat)
    \/ \E group_chat_id \in ChatIdArgs, users \in UserLists, all_or_nothing \in BOOLEAN :
          add_to_group_chat(group_chat_id, users, all_or_nothing)
    \/ \E group_chat_id \in ChatIdArgs, user_id \in UserIdArgs :
          del_from_group_chat(group_chat_id, user_id)

Spec == Init /\ [][Next]_vars

\* ------------------------------------------------ interleaved units of work
\* DAO.access hands the unit of work to a pool thread (dao.py line 86-88).
\* The thread runs do() up to session.commit(): the queries have been
\* answered and the changes are pending in the session.
Running(op, args, plan) == [pc |-> "commit", op |-> op, args |-> args, plan |-> plan]

\* ThreadPoolExecutor gives the unit of work to an idle thread; the threads
\* are interchangeable, so the model takes the first idle one.
Free(w) ==
    /\ txn[w] = Idle
    /\ \A v \in Workers : v < w => txn[v] # Idle

\* A unit of work that found an error has nothing pending: it returns its
\* error string.  One that has changes pending stays on its worker until
\* finish_unit, while other units of work read and commit.
Begin(w, op, args, plan) ==
    /\ Free(w)
    /\ begun < MaxUnits
    /\ begun' = begun + 1
    /\ IF plan.kind = "error"
       THEN /\ Finish(op, args, plan)
            /\ UNCHANGED <<returned, txn, bridge, lifecycle>>
       ELSE /\ txn' = [txn EXCEPT ![w] = Running(op, args, plan)]
            /\ UNCHANGED <<tables, autoinc, returned, last, bridge, lifecycle>>

\* Server._get_messages.do: it only reads, and ends when it has read
run_get_messages(w, uid, is_group) ==
    /\ Free(w)
    /\ begun < MaxUnits
    /\ begun' = begun + 1
    /\ GetMessages(uid, is_group)
    /\ UNCHANGED <<tables, autoinc, returned, txn, bridge, lifecycle>>

\* Server._post_messages.do up to line 160
begin_post_messages(w, message, user_id, target_id, target_is_group_chat) ==
    \E plan \in PostPlans(message, user_id, target_id, target_is_group_chat) :
        Begin(w, "post_messages", <<message, user_id, target_id, target_is_group_chat>>, plan)

\* Server._add_to_group_chat.do up to line 244
begin_add_to_group_chat(w, group_chat_id, users, all_or_nothing) ==
    Begin(w, "add_to_group_chat", <<group_chat_id, users, all_or_nothing>>,
          AddPlan(group_chat_id, users, all_or_nothing))

\* Server._del_from_group_chat.do up to line 278
begin_del_from_group_chat(w, group_chat_id, user_id) ==
    \E plan \in DelPlans(group_chat_id, user_id) :
        Begin(w, "del_from_group_chat", <<group_chat_id, user_id>>, plan)

\* the rest of do(): session.commit() and the return, then DAO._access leaves
\* the session and the operation builds its response
finish_unit(w) ==
    /\ txn[w] # Idle
    /\ Finish(txn[w].op, txn[w].args, txn[w].plan)
    /\ txn' = [txn EXCEPT ![w] = Idle]
    /\ UNCHANGED <<returned, begun, bridge, lifecycle>>

NextConc ==
    \/ create_user
    \/ create_group_char
    \/ \E w \in Workers, uid \in UserIdArgs \cup ConcChatIdArgs, is_group \in BOOLEAN :
          run_get_messages(w, uid, is_group)
    \/ \E w \in Workers, message \in Messages, user_id \in UserIdArgs,
          target_id \in UserIdArgs \cup ConcChatIdArgs, target_is_group_chat \in BOOLEAN :
          begin_post_messages(w, message, user_id, target_id, target_is_group_chat)
    \/ \E w \in Workers, group_chat_id \in ConcChatIdArgs, users \in ConcUserLists,
          all_or_nothing \in BOOLEAN :
          begin_add_to_group_chat(w, group_chat_id, users, all_or_nothing)
    \/ \E w \in Workers, group_chat_id \in ConcChatIdArgs, user_id \in UserIdArgs :
          begin_del_from_group_chat(w, group_chat_id, user_id)
    \/ \E w \in Workers : finish_unit(w)

SpecConc == Init /\ [][NextConc]_vars

\* ------------------------------------------------------------ DAO.access
\* The units of work DAO.access is given, by what func does with its handle:
\*   "returns" : it reads and returns (get_messages; every do() on its error path)
\*   "commits" : session.add / session.delete, session.commit(), return
\*   "raises"  : session.add / session.delete, then session.commit() raises
\* With with_session=False func gets a Connection; no do() takes one, so a
\* unit of work on a connection only reads.
Exceptions == {"IntegrityError"}
UnitsOfWork ==
    {[func |-> f, with_session |-> TRUE] : f \in {"returns", "commits", "raises"}}
        \cup {[func |-> "returns", with_session |-> FALSE]}

PendingFuture == [state |-> "pending", exc |-> "None"]
DoneFuture == [state |-> "done", exc |-> "None"]
FailedFuture(exc) == [state |-> "failed", exc |-> exc]

\* a thread is started at every submit, whatever the number of threads
SpawnAllowed_Always(num_threads) == TRUE

\* submit never starts a thread
SpawnAllowed_Never(num_threads) == FALSE

\* ThreadPoolExecutor.submit starts a thread only below max_workers, the size
\* the executor got when DAO.__init__ constructed it (line 27)
SpawnAllowed(num_threads) == num_threads < PoolSize

\* DAO.access, line 86-88: run_in_executor submits the call of _access and
\* returns its future.  submit puts the work item in the queue of the
\* executor; it takes the idle semaphore when a thread is waiting, and
\* otherwise starts a thread if it may.
access(func, with_session) ==
    /\ Len(submitted) < MaxUnits
    /\ LET id == Len(submitted) + 1 IN
        /\ submitted' = Append(submitted, [func |-> func, with_session |-> with_session])
        /\ future' = Append(future, PendingFuture)
        /\ calls' = Append(calls, 0)
        /\ executor' =
              [work_queue |-> Append(executor.work_queue, id),
               num_threads |->
                   IF executor.idle_semaphore = 0 /\ SpawnAllowed(executor.num_threads)
                   THEN executor.num_threads + 1 ELSE executor.num_threads,
               idle_semaphore |->
                   IF executor.idle_semaphore > 0
                   THEN executor.idle_semaphore - 1 ELSE 0]
    /\ UNCHANGED <<worker, registry, handles, store, server, lifecycle>>

\* one scope for all threads: every call gets the same Session
ScopeKey_Constant(t) == 1

\* scoped_session with scopefunc=None (DAO.__init__ line 30-31): the registry
\* is thread-local, the scope is the calling thread
ScopeKey(t) == t

\* the changes of a session are committed when the session is left, also when
\* func raised
CommittedAfterExit_Always(committed, id, func) ==
    IF func \in {"commits", "raises"} THEN committed \cup {id} ELSE committed

\* the changes committed once the call has left _access: those of a func whose
\* session.commit() returned; leaving the with block commits nothing
CommittedAfterExit(committed, id, func) ==
    IF func = "commits" THEN committed \cup {id} ELSE committed

\* the handle is closed only when func returned
OpenAfterExit_ReturnOnly(open, handle, func) ==
    IF func = "raises" THEN open ELSE open \ {handle}

\* the handles open once the call has left the with block of _access (line
\* 60 / 63): __exit__ closes the handle, whether func returned or raised
OpenAfterExit(open, handle, func) == open \ {handle}

\* DAO._access, line 59-64, up to the point func commits or returns: a thread
\* of the executor takes the work item, obtains the handle (the Session of
\* its scope, made on first use; or a new Connection), enters the with block
\* and calls func, which reads and leaves its changes pending in the session.
enter_access(t) ==
    /\ t <= executor.num_threads
    /\ worker[t] = Idle
    /\ executor.work_queue # <<>>
    /\ LET id == Head(executor.work_queue)
           unit == submitted[id]
           key == ScopeKey(t)
           reuse == unit.with_session /\ registry[key] # 0
           handle == IF reuse THEN registry[key] ELSE handles.next
       IN  /\ executor' = [executor EXCEPT !.work_queue = Tail(@)]
           /\ registry' = IF unit.with_session /\ ~reuse
                          THEN [registry EXCEPT ![key] = handle] ELSE registry
           /\ handles' = [next |-> IF reuse THEN handles.next ELSE handles.next + 1,
                          open |-> handles.open \cup {handle}]
           /\ calls' = [calls EXCEPT ![id] = @ + 1]
           /\ store' = IF unit.func \in {"commits", "raises"}
                       THEN [store EXCEPT !.pending = @ \cup {<<handle, id>>}]
                       ELSE store
           /\ worker' = [worker EXCEPT ![t] = [pc |-> "func", id |-> id, handle |-> handle]]
    /\ UNCHANGED <<submitted, future, server, lifecycle>>

\* the rest of DAO._access: func commits and returns, or returns, or raises
\* out of session.commit(); the with block is left, which closes the handle
\* and drops what is pending in it; the result or the exception is set on
\* the future, and the thread releases the idle semaphore.
exit_access(t) ==
    /\ worker[t] # Idle
    /\ LET id == worker[t].id
           handle == worker[t].handle
           func == submitted[id].func
       IN  /\ store' = [committed |-> CommittedAfterExit(store.committed, id, func),
                        pending |-> {p \in store.pending : p[1] # handle}]
           /\ handles' = [handles EXCEPT !.open = OpenAfterExit(@, handle, func)]
           /\ future' = [future EXCEPT ![id] =
                            IF func = "raises"
                            THEN FailedFuture(CHOOSE e \in Exceptions : TRUE)
                            ELSE DoneFuture]
           /\ worker' = [worker EXCEPT ![t] = Idle]
           /\ executor' = [executor EXCEPT !.idle_semaphore = @ + 1]
    /\ UNCHANGED <<submitted, calls, registry, server, lifecycle>>

NextDAO ==
    \/ \E unit \in UnitsOfWork : access(unit.func, unit.with_session)
    \/ \E t \in ThreadIds : enter_access(t)
    \/ \E t \in ThreadIds : exit_access(t)

SpecDAO == Init /\ [][NextDAO]_vars

\* SpecDAO with its scheduling: an executor thread that waits on the work
\* queue takes a work item that stays there (the threads block in queue.get),
\* and a unit of work that has been called ends, by returning or by raising.
SpecDAOFair ==
    /\ SpecDAO
    /\ \A t \in ThreadIds : WF_vars(enter_access(t))
    /\ \A t \in ThreadIds : WF_vars(exit_access(t))

\* ------------------------------------------------- Server: life of the object
\* The database URLs of tests/test_server.py, as the sequences of their parts.
valid_urls ==
    { <<"mysql+pymysql", "://", "user", ":", "password", "@", "localhost", "/", "db">>,
      <<"mysql+pymysql", "://", "localhost", "/", "db">>,
      <<"mysql+pymysql", "://", "localhost", ":", "3306", "/", "db">> }

invalid_urls ==
    { <<"mysql", "//", "user", ":", "password", "@", "localhost", "/", "db">>,
      <<"mysql+pymysql", "://", "localhost", ":", "port", "/", "db">>,
      <<"unknown", "://", "localhost", ":", "3306", "/", "db">> }

Urls == valid_urls \cup invalid_urls

\* the dialects installed with the program, and the parts int() accepts
Dialects == {"mysql+pymysql"}
Numerals == {"3306"}

\* position of the first part equal to tok, 0 when there is none
IndexOf(seq, tok) ==
    IF \E i \in 1..Len(seq) : seq[i] = tok
    THEN CHOOSE i \in 1..Len(seq) : seq[i] = tok /\ \A j \in 1..(i - 1) : seq[j] # tok
    ELSE 0

\* host[:port] of a URL: what follows "name://" and the optional
\* "user[:password]@", up to the "/" that opens the database name
UrlLocation(url) ==
    LET rest == SubSeq(url, 3, Len(url))
        at == IndexOf(rest, "@")
        tail == SubSeq(rest, at + 1, Len(rest))
        slash == IndexOf(tail, "/")
    IN  IF slash = 0 THEN tail ELSE SubSeq(tail, 1, slash - 1)

UrlPort_None(url) == ""

\* the port part of a URL, "" when the URL has none
UrlPort(url) ==
    LET loc == UrlLocation(url)
        colon == IndexOf(loc, ":")
    IN  IF colon = 0 \/ colon = Len(loc) THEN "" ELSE loc[colon + 1]

\* sqlalchemy.create_engine(url): "ok", or the exception it raises.  The URL
\* has to read name://...; its port, when it has one, goes through int(); the
\* dialect it names is then looked up.  No connection is made.
create_engine(url) ==
    IF Len(url) < 2 \/ url[2] # "://"
    THEN "ArgumentError"
    ELSE IF UrlPort(url) # "" /\ UrlPort(url) \notin Numerals
         THEN "ValueError"
         ELSE IF url[1] \notin Dialects
              THEN "NoSuchModuleError"
              ELSE "ok"

\* NoSuchModuleError is a subclass of ArgumentError
ArgumentOrValueError(exc) == exc \in {"ArgumentError", "NoSuchModuleError", "ValueError"}

\* DAO._init_schema(): create_all connects to the database
init_schema(up) == IF up THEN "ok" ELSE "OperationalError"

\* Server.__init__(cfg): _init_database_accessor() builds the DAO, whose
\* constructor creates the engine and then the schema
Server_init ==
    /\ constructed = "no"
    /\ LET engine == create_engine(db_url)
           res == IF engine # "ok" THEN engine ELSE init_schema(database_up)
       IN  /\ constructed' = IF res = "ok" THEN "yes" ELSE res
           /\ last' = IF res = "ok"
                      THEN [op |-> "Server", args |-> <<db_url>>, raised |-> FALSE,
                            status |-> TRUE, data |-> "None"]
                      ELSE Raised("Server", <<db_url>>, res)
    /\ UNCHANGED <<tables, autoinc, returned, pool, bridge,
                   db_url, database_up, started, app_runner, app_site, runners, sites>>

StartResult_Always(is_started) == TRUE

\* res = not self._started
StartResult(is_started) == ~is_started

MustSetUp_Always(is_started) == TRUE

\* if not self._started:
MustSetUp(is_started) == ~is_started

\* the server answers requests while one of its sites listens
Up == \E i \in 1..Len(sites) : sites[i].state = "listening"

\* await server.start().  The callback the ExitStack runs when the site fails
\* to start calls AppRunner.cleanup, a coroutine function: the coroutine it
\* returns is never awaited, so the runner stays set up.
start ==
    /\ constructed = "yes"
    /\ IF MustSetUp(started)
       THEN /\ Len(runners) < MaxStarts
            /\ runners' = Append(runners, [state |-> "setup"])
            /\ app_runner' = Len(runners) + 1
            /\ app_site' = Len(sites) + 1
            /\ \E bound \in BOOLEAN :
                  IF bound
                  THEN /\ sites' = Append(sites, [runner |-> Len(runners) + 1,
                                                  state |-> "listening"])
                       /\ started' = TRUE
                       /\ last' = [op |-> "start", args |-> <<>>, raised |-> FALSE,
                                   status |-> TRUE, data |-> StartResult(started)]
                  ELSE /\ sites' = Append(sites, [runner |-> Len(runners) + 1,
                                                  state |-> "failed"])
                       /\ started' = started
                       /\ last' = [op |-> "start", args |-> <<>>, raised |-> TRUE,
                                   status |-> FALSE, data |-> "OSError"]
       ELSE /\ last' = [op |-> "start", args |-> <<>>, raised |-> FALSE,
                        status |-> TRUE, data |-> StartResult(started)]
            /\ UNCHANGED <<started, app_runner, app_site, runners, sites>>
    /\ UNCHANGED <<tables, autoinc, returned, pool, bridge, db_url, database_up, constructed>>

\* AppRunner.cleanup(): the runner's sites stop, the runner is cleaned
cleanup(r) ==
    /\ runners' = [runners EXCEPT ![r].state = "cleaned"]
    /\ sites' = [i \in 1..Len(sites) |->
                    IF sites[i].runner = r /\ sites[i].state = "listening"
                    THEN [sites[i] EXCEPT !.state = "stopped"]
                    ELSE sites[i]]

\* await server.stop()
stop ==
    /\ constructed = "yes"
    /\ IF started
       THEN cleanup(app_runner)
       ELSE UNCHANGED <<runners, sites>>
    /\ last' = [op |-> "stop", args |-> <<>>, raised |-> FALSE,
                status |-> TRUE, data |-> "None"]
    /\ UNCHANGED <<tables, autoinc, returned, pool, bridge,
                   db_url, database_up, constructed, started, app_runner, app_site>>

InitServer ==
    /\ User = {}
    /\ GroupChat = {}
    /\ P2PMessage = {}
    /\ GroupChatMembers = {}
    /\ GroupChatMessage = {}
    /\ autoinc = [User |-> 1, GroupChat |-> 1, P2PMessage |-> 1,
                  GroupChatMembers |-> 1, GroupChatMessage |-> 1]
    /\ returned = [User |-> {}, GroupChat |-> {}]
    /\ last = [op |-> "none", args |-> <<>>, raised |-> FALSE, status |-> TRUE, data |-> "None"]
    /\ txn = [w \in Workers |-> Idle]
    /\ begun = 0
    /\ submitted = <<>>
    /\ future = <<>>
    /\ calls = <<>>
    /\ executor = [work_queue |-> <<>>, num_threads |-> 0, idle_semaphore |-> 0]
    /\ worker = [t \in ThreadIds |-> Idle]
    /\ registry = [t \in ThreadIds |-> 0]
    /\ handles = [next |-> 1, open |-> {}]
    /\ store = [committed |-> {}, pending |-> {}]
    /\ db_url \in Urls
    /\ database_up \in BOOLEAN
    /\ constructed = "no"
    /\ started = FALSE
    /\ app_runner = 0
    /\ app_site = 0
    /\ runners = <<>>
    /\ sites = <<>>

NextServer ==
    \/ Server_init
    \/ start
    \/ stop

SpecServer == InitServer /\ [][NextServer]_vars

\* ------------------------------------------------------------------ claims
\* In Spec every step that changes the state is one completed call, and last'
\* is its outcome: its arguments are last'.args, the tables it ran on are the
\* unprimed ones.  (A call that changes no table and repeats the outcome of
\* the call before it is a stuttering step; its outcome was checked when that
\* call ran on the same tables.)
\*   post_messages        args = <<message, user_id, target_id, target_is_group_chat>>
\*   add_to_group_chat    args = <<group_chat_id, users, all_or_nothing>>
\*   del_from_group_chat  args = <<group_chat_id, user_id>>
\*   get_messages         args = <<uid, is_group>>

\* C1 (SpecConc): once a best-effort add_to_group_chat(chat, [u1], False) has
\* completed and no unit of work is in flight, however the reads and commits
\* of concurrent calls were interleaved, GroupChatMembers holds no second row
\* for (u1, chat).
C1_ConcurrentAddOneRow ==
    (/\ \A w \in Workers : txn[w] = Idle
     /\ last.op = "add_to_group_chat"
     /\ last.args[3] = FALSE
     /\ Len(last.args[2]) = 1)
    => Cardinality({m \in GroupChatMembers :
            m.user_id = last.args[2][1] /\ m.group_chat_id = last.args[1]}) <= 1

\* C2 (Spec): in every state reached by domain operations run one after
\* another, no two GroupChatMembers rows have the same (user_id, group_chat_id).
C2_UniqueMembership ==
    \A m1, m2 \in GroupChatMembers :
        (m1.user_id = m2.user_id /\ m1.group_chat_id = m2.group_chat_id) => m1 = m2

\* a successful add was asked for a user who was a member already and skipped it
C2_Witness ==
    /\ last.op = "add_to_group_chat"
    /\ last.status
    /\ \E u \in Range(last.args[2]) :
          /\ u \notin last.data
          /\ \E m \in GroupChatMembers : m.user_id = u /\ m.group_chat_id = last.args[1]

\* C3 (Spec): add_to_group_chat with all_or_nothing=True on an existing chat,
\* with a requested id that is no User, returns the failure listing exactly
\* the unknown ids and inserts no GroupChatMembers row.
C3_AllOrNothingUnknown ==
    [][(/\ last'.op = "add_to_group_chat"
        /\ last'.args[3] = TRUE
        /\ last'.args[1] \in GroupChat
        /\ Range(last'.args[2]) \ User # {})
       => (/\ ~last'.raised
           /\ ~last'.status
           /\ last'.data = ErrUnknownIdentifiers(Range(last'.args[2]) \ User)
           /\ GroupChatMembers' = GroupChatMembers)]_vars

\* the failed call also asked for a known user who is not a member of the chat
C3_Witness ==
    /\ last.op = "add_to_group_chat"
    /\ last.args[3] = TRUE
    /\ ~last.raised /\ ~last.status
    /\ last.data.text = "Unknown identifiers [%s]"
    /\ \E u \in Range(last.args[2]) :
          /\ u \in User
          /\ ~\E m \in GroupChatMembers : m.user_id = u /\ m.group_chat_id = last.args[1]

\* C4 (Spec): add_to_group_chat with all_or_nothing=True on an existing chat:
\* when all requested ids are Users and some are members of the chat already,
\* it returns the failure listing exactly those members and inserts no row;
\* when unknown ids and members are both requested, the failure is the one
\* listing the unknown ids.
C4_AllOrNothingExisting ==
    [][(/\ last'.op = "add_to_group_chat"
        /\ last'.args[3] = TRUE
        /\ last'.args[1] \in GroupChat)
       => LET requested == Range(last'.args[2])
              members == {u \in requested : \E m \in GroupChatMembers :
                              m.user_id = u /\ m.group_chat_id = last'.args[1]}
          IN  /\ (requested \subseteq User /\ members # {})
                 => (/\ ~last'.raised
                     /\ ~last'.status
                     /\ last'.data = ErrUsersInChat(members, last'.args[1])
                     /\ GroupChatMembers' = GroupChatMembers)
              /\ (requested \ User # {} /\ members # {})
                 => (/\ ~last'.raised
                     /\ ~last'.status
                     /\ last'.data = ErrUnknownIdentifiers(requested \ User))]_vars

\* the failed call listed the members and also asked for a user it did not list
C4_Witness ==
    /\ last.op = "add_to_group_chat"
    /\ last.args[3] = TRUE
    /\ ~last.raised /\ ~last.status
    /\ last.data.text = "Users [%s] are in chat %s"
    /\ \E u \in Range(last.args[2]) : u \in User /\ u \notin last.data.ids

\* C5 (Spec): for an existing chat and an existing user u1, a best-effort
\* add_to_group_chat(chat, [u1], False) returns [u1] when u1 is no member; the
\* same call made right after one that returned [u1] returns [] and leaves
\* GroupChatMembers as the first call left it.
C5_BestEffortIdempotent ==
    [][(/\ last'.op = "add_to_group_chat"
        /\ last'.args[3] = FALSE
        /\ Len(last'.args[2]) = 1
        /\ last'.args[1] \in GroupChat
        /\ last'.args[2][1] \in User)
       => LET chat == last'.args[1]
              u1 == last'.args[2][1]
          IN  /\ (~\E m \in GroupChatMembers : m.user_id = u1 /\ m.group_chat_id = chat)
                 => (last'.status /\ last'.data = {u1})
              /\ (/\ last.op = "add_to_group_chat"
                  /\ last.args = last'.args
                  /\ last.status
                  /\ last.data = {u1})
                 => (/\ last'.status
                     /\ last'.data = {}
                     /\ GroupChatMembers' = GroupChatMembers)]_vars

\* a best-effort add of one user who is a member returned the empty set
C5_Witness ==
    /\ last.op = "add_to_group_chat"
    /\ last.args[3] = FALSE
    /\ Len(last.args[2]) = 1
    /\ last.status
    /\ last.data = {}
    /\ \E m \in GroupChatMembers :
          m.user_id = last.args[2][1] /\ m.group_chat_id = last.args[1]

\* C6 (Spec): when add_to_group_chat on an existing chat returns success, the
\* returned ids are exactly (requested ids that are Users) minus (members of
\* the chat), and exactly one new row of that chat was inserted for each of
\* them and no other row changed; with all_or_nothing=False the call
\* succeeds for every request.
C6_AddReturnsInserted ==
    [][(/\ last'.op = "add_to_group_chat"
        /\ last'.args[1] \in GroupChat)
       => LET chat == last'.args[1]
              expected == (Range(last'.args[2]) \cap User) \
                              {m.user_id : m \in {r \in GroupChatMembers : r.group_chat_id = chat}}
              inserted == GroupChatMembers' \ GroupChatMembers
          IN  /\ (last'.args[3] = FALSE) => last'.status
              /\ last'.status
                 => (/\ last'.data = expected
                     /\ GroupChatMembers \subseteq GroupChatMembers'
                     /\ {m.user_id : m \in inserted} = last'.data
                     /\ \A m \in inserted : m.group_chat_id = chat
                     /\ Cardinality(inserted) = Cardinality(last'.data))]_vars

\* a successful add inserted some of the requested ids and dropped others
C6_Witness ==
    /\ last.op = "add_to_group_chat"
    /\ last.status
    /\ last.data # {}
    /\ Range(last.args[2]) # last.data
    /\ \A u \in last.data : \E m \in GroupChatMembers :
          m.user_id = u /\ m.group_chat_id = last.args[1]

\* C7 (Spec): post_messages with a user_id that is no User fails naming
\* user_id, whatever the target; with an existing user and a target that
\* does not exist in the table the flag selects, it fails naming target_id;
\* the not-a-member failure is returned only when the user and the target
\* exist and the target is a group chat.
C7_PostErrorPriority ==
    (last.op = "post_messages")
    => LET user_id == last.args[2]
           target_id == last.args[3]
           target_exists == IF last.args[4] THEN target_id \in GroupChat ELSE target_id \in User
       IN  /\ (user_id \notin User)
              => (~last.raised /\ ~last.status /\ last.data = ErrIdentifierNotExist(user_id))
           /\ (user_id \in User /\ ~target_exists)
              => (~last.raised /\ ~last.status /\ last.data = ErrIdentifierNotExist(target_id))
           /\ (~last.raised /\ ~last.status /\ last.data.text = "User %s is not a member of chat %s")
              => (user_id \in User /\ last.args[4] /\ target_id \in GroupChat)

\* neither the user nor the target of the failed post exists, and they differ
C7_Witness ==
    /\ last.op = "post_messages"
    /\ last.args[2] \notin User
    /\ (IF last.args[4] THEN last.args[3] \notin GroupChat ELSE last.args[3] \notin User)
    /\ last.args[2] # last.args[3]
    /\ ~last.status

\* C8 (Spec): a call that returns a failure result leaves all five tables as
\* they were; a post_messages to an existing group chat by an existing user
\* who is no member of it fails, inserts no GroupChatMessage row, and
\* get_messages on that chat selects the same texts after it as before.
C8_FailureChangesNothing ==
    [][/\ (~last'.raised /\ ~last'.status) => tables' = tables
       /\ \A chat \in GroupChat :
             (/\ last'.op = "post_messages"
              /\ last'.args[4]
              /\ last'.args[3] = chat
              /\ last'.args[2] \in User
              /\ ~\E m \in GroupChatMembers :
                     m.user_id = last'.args[2] /\ m.group_chat_id = chat)
             => (/\ ~last'.status
                 /\ GroupChatMessage' = GroupChatMessage
                 /\ GetMessagesDo(chat, TRUE)' = GetMessagesDo(chat, TRUE))]_vars

\* a non-member's post failed on a chat that holds a message
C8_Witness ==
    /\ last.op = "post_messages"
    /\ ~last.raised /\ ~last.status
    /\ last.data = ErrNotMember(last.args[2], last.args[3])
    /\ \E g \in GroupChatMessage, m \in GroupChatMembers :
          m.id = g.group_chat_member_id /\ m.group_chat_id = last.args[3]

\* C9 (Spec): get_messages(id, is_group) succeeds exactly when a row with that
\* id exists in the table is_group selects (User when False, GroupChat when
\* True), and otherwise fails naming id, also when the other table has a row
\* with that id.
C9_GetMessagesNotFound ==
    (last.op = "get_messages")
    => LET id == last.args[1]
           exists == IF last.args[2] THEN id \in GroupChat ELSE id \in User
       IN  /\ ~last.raised
           /\ last.status <=> exists
           /\ ~exists => last.data = ErrIdentifierNotExist(id)

\* get_messages failed for an id that exists in the table of the other kind
C9_Witness ==
    /\ last.op = "get_messages"
    /\ ~last.status
    /\ IF last.args[2] THEN last.args[1] \in User ELSE last.args[1] \in GroupChat

\* C10 (Spec): every create_user and every create_group_char returns a
\* positive id that no earlier call for the same table returned; a
\* get_messages(id, False) made right after create_user returned id succeeds
\* with no message.
C10_FreshPositiveIds ==
    [][/\ (last'.op = "create_user")
          => (last'.status /\ last'.data > 0 /\ last'.data \notin returned.User)
       /\ (last'.op = "create_group_char")
          => (last'.status /\ last'.data > 0 /\ last'.data \notin returned.GroupChat)
       /\ (/\ last.op = "create_user"
           /\ last'.op = "get_messages"
           /\ last'.args = <<last.data, FALSE>>)
          => (last'.status /\ DOMAIN last'.data = {})]_vars

\* create_user returned an id after an earlier call had returned another
C10_Witness ==
    /\ last.op = "create_user"
    /\ last.data > 0
    /\ returned.User \ {last.data} # {}

\* the number of times text t occurs in the tuple get_messages returned
Occurrences(data, t) == IF t \in DOMAIN data THEN data[t] ELSE 0

\* C11 (Spec): a successful get_messages(uid, False) returns exactly the texts
\* of the P2PMessage rows whose origin_user_id is uid (a row where uid is only
\* the target is not counted); a successful get_messages(uid, True) returns
\* exactly the texts of the GroupChatMessage rows whose member row belongs to
\* chat uid, and of no other chat.
C11_GetMessagesContent ==
    (last.op = "get_messages" /\ last.status)
    => LET uid == last.args[1]
           rows == IF last.args[2]
                   THEN {g \in GroupChatMessage : \E m \in GroupChatMembers :
                            m.id = g.group_chat_member_id /\ m.group_chat_id = uid}
                   ELSE {p \in P2PMessage : p.origin_user_id = uid}
       IN  /\ DOMAIN last.data \subseteq Messages
           /\ \A t \in Messages :
                 Occurrences(last.data, t) = Cardinality({r \in rows : r.message = t})

\* get_messages succeeded for a user who is the target of another user's
\* message, and that message is not in the result
C11_Witness ==
    /\ last.op = "get_messages"
    /\ last.status
    /\ last.args[2] = FALSE
    /\ \E p \in P2PMessage :
          /\ p.target_user_id = last.args[1]
          /\ p.origin_user_id # last.args[1]
          /\ Occurrences(last.data, p.message) = 0

\* C12 (Spec): del_from_group_chat(chat, u1), for a member u1 of chat who has
\* posted messages in it, succeeds, deletes the membership row together with
\* every GroupChatMessage row posted under it, and get_messages(chat, True)
\* then selects only the messages of the remaining members.
C12_RemoveMemberCascade ==
    [][\A chat \in GroupChat :
          LET u1 == last'.args[2]
              member == {m \in GroupChatMembers : m.user_id = u1 /\ m.group_chat_id = chat}
              posted == {g \in GroupChatMessage : \E m \in member : g.group_chat_member_id = m.id}
          IN  (/\ last'.op = "del_from_group_chat"
               /\ last'.args[1] = chat
               /\ u1 \in User
               /\ posted # {})
              => (/\ ~last'.raised
                  /\ last'.status
                  /\ GroupChatMembers' = GroupChatMembers \ member
                  /\ GroupChatMessage' = GroupChatMessage \ posted
                  /\ GetMessagesDo(chat, TRUE)' =
                        MessageTuple({g \in GroupChatMessage \ posted :
                            \E m \in GroupChatMembers \ member :
                                m.id = g.group_chat_member_id /\ m.group_chat_id = chat}))]_vars

\* C13 (SpecConc): in every reachable state, however the reads and commits of
\* the units of work interleave (a group post_messages that read the member
\* row before a del_from_group_chat deleted it and committed, and commits
\* after), every GroupChatMessage row references a GroupChatMembers row that
\* exists.
C13_NoOrphanMessage ==
    \A g \in GroupChatMessage :
        \E m \in GroupChatMembers : m.id = g.group_chat_member_id

\* a group post_messages read the member row, the row was deleted before its
\* commit, and its commit has run
C13_Witness ==
    /\ last.op = "post_messages"
    /\ last.args[4]
    /\ last.raised
    /\ last.args[2] \in User
    /\ last.args[3] \in GroupChat
    /\ ~\E m \in GroupChatMembers :
           m.user_id = last.args[2] /\ m.group_chat_id = last.args[3]

\* C14 (Spec): the round trip create_group_char, add_to_group_chat,
\* post_messages, get_messages, stated call by call so that each call hands
\* the next one the state it needs: create_group_char returns the id of a chat
\* with no member row; add_to_group_chat(id, [u], True) for a user u, on a chat
\* with no member row, returns [u] and leaves u the one member of the chat,
\* with nothing for get_messages to select; post_messages("hi", u, id, True)
\* by a member u succeeds and adds the one text "hi" to what get_messages
\* selects for the chat; and
\* get_messages(id, True) on a chat whose one message is "hi" returns ["hi"].
C14_RoundTrip ==
    [][\A id \in GroupChat' :
          LET members == {m \in GroupChatMembers : m.group_chat_id = id}
              members_after == {m \in GroupChatMembers' : m.group_chat_id = id}
              single == [t \in {"hi"} |-> 1]
          IN  /\ (last'.op = "create_group_char" /\ last'.data = id)
                 => (last'.status /\ members_after = {} /\ id \notin GroupChat)
              /\ (/\ last'.op = "add_to_group_chat"
                  /\ last'.args[1] = id
                  /\ last'.args[3] = TRUE
                  /\ Len(last'.args[2]) = 1
                  /\ last'.args[2][1] \in User
                  /\ id \in GroupChat
                  /\ members = {})
                 => (/\ last'.status
                     /\ last'.data = {last'.args[2][1]}
                     /\ {m.user_id : m \in members_after} = {last'.args[2][1]}
                     /\ Cardinality(members_after) = 1
                     /\ GroupChatMessage' = GroupChatMessage
                     /\ DOMAIN GetMessagesDo(id, TRUE)' = {})
              /\ (/\ last'.op = "post_messages"
                  /\ last'.args = <<"hi", last'.args[2], id, TRUE>>
                  /\ id \in GroupChat
                  /\ last'.args[2] \in User
                  /\ \E m \in members : m.user_id = last'.args[2])
                 => (/\ ~last'.raised
                     /\ last'.status
                     /\ \A t \in Messages :
                           Occurrences(GetMessagesDo(id, TRUE)', t) =
                              Occurrences(GetMessagesDo(id, TRUE), t) + (IF t = "hi" THEN 1 ELSE 0))
              /\ (/\ last'.op = "get_messages"
                  /\ last'.args = <<id, TRUE>>
                  /\ id \in GroupChat
                  /\ GetMessagesDo(id, TRUE) = single)
                 => (last'.status /\ last'.data = single)]_vars

\* get_messages returned ["hi"] for a chat that has one member and one message
C14_Witness ==
    /\ last.op = "get_messages"
    /\ last.args[2] = TRUE
    /\ last.status
    /\ last.data = [t \in {"hi"} |-> 1]
    /\ Cardinality({m \in GroupChatMembers : m.group_chat_id = last.args[1]}) = 1

\* C15 (Spec): a domain operation whose session.commit() meets a constraint
\* violation of the storage engine returns the failure result to its caller:
\* no call ends with the IntegrityError raised out of it.
C15_ViolationReturnsFailure ==
    ~(last.raised /\ last.data = "IntegrityError")

\* C16 (Spec): del_from_group_chat(chat, user) checks the chat, then the user,
\* then the membership: it fails naming the chat id when the chat does not
\* exist, also when the user is unknown too; else fails naming the user id
\* when the user does not exist; else fails not-a-member when (user, chat) has
\* no member row; and when it succeeds it has deleted the member row of
\* (user, chat) and no other row.
C16_DelCheckOrder ==
    [][(last'.op = "del_from_group_chat")
       => LET chat == last'.args[1]
              user == last'.args[2]
              member == {m \in GroupChatMembers : m.user_id = user /\ m.group_chat_id = chat}
          IN  /\ (chat \notin GroupChat)
                 => (~last'.raised /\ ~last'.status /\ last'.data = ErrUnknownIdentifier(chat))
              /\ (chat \in GroupChat /\ user \notin User)
                 => (~last'.raised /\ ~last'.status /\ last'.data = ErrUnknownIdentifier(user))
              /\ (chat \in GroupChat /\ user \in User /\ member = {})
                 => (~last'.raised /\ ~last'.status /\ last'.data = ErrNotMember(user, chat))
              /\ (~last'.raised /\ last'.status)
                 => (/\ Cardinality(member) = 1
                     /\ GroupChatMembers' = GroupChatMembers \ member
                     /\ UNCHANGED <<User, GroupChat, P2PMessage, GroupChatMessage>>)]_vars

\* del_from_group_chat failed naming the chat id, for a user id that is
\* unknown too and differs from the chat id
C16_Witness ==
    /\ last.op = "del_from_group_chat"
    /\ last.args[1] \notin GroupChat
    /\ last.args[2] \notin User
    /\ last.args[1] # last.args[2]
    /\ ~last.raised /\ ~last.status
    /\ last.data = ErrUnknownIdentifier(last.args[1])

\* the executor threads that are inside DAO._access
Busy == {t \in ThreadIds : worker[t] # Idle}

\* C17 (SpecDAO): however the calls of DAO.access are spread over the executor
\* threads, no two units of work that are running at the same time hold the
\* same session or connection.
C17_OwnHandle ==
    \A t1, t2 \in Busy : t1 # t2 => worker[t1].handle # worker[t2].handle

\* two units of work that both asked for a session are running at the same time
C17_Witness ==
    \E t1, t2 \in Busy :
        /\ t1 # t2
        /\ submitted[worker[t1].id].with_session
        /\ submitted[worker[t2].id].with_session

\* C18 (SpecDAO): the sessions and connections that are open are those of the
\* units of work that are running: once DAO._access has returned or raised,
\* the handle it obtained is closed, and when no unit of work is running none
\* is open.
C18_HandleReleased ==
    /\ handles.open = {worker[t].handle : t \in Busy}
    /\ (Busy = {}) => handles.open = {}

\* a unit of work has raised, another has returned, and none is running
C18_Witness ==
    /\ Busy = {}
    /\ \E i, j \in 1..Len(future) :
          future[i].state = "failed" /\ future[j].state = "done"

\* C19 (SpecDAO): when the unit of work raises, the future of DAO.access fails
\* with the exception it raised, func has been called exactly once, and the
\* changes it made are neither committed nor left pending; a future fails for
\* no other reason.
C19_RaisePropagates ==
    \A id \in 1..Len(submitted) :
        /\ (future[id].state = "failed")
           => (/\ submitted[id].func = "raises"
               /\ future[id].exc \in Exceptions
               /\ calls[id] = 1
               /\ id \notin store.committed
               /\ ~\E p \in store.pending : p[2] = id)
        /\ (future[id].state = "done") => submitted[id].func # "raises"
        /\ calls[id] <= 1

\* the future of a unit of work has failed, and the changes of a unit of work
\* submitted before it are committed
C19_Witness ==
    \E i, j \in 1..Len(future) :
        /\ future[j].state = "failed"
        /\ i < j
        /\ i \in store.committed

\* C20 (SpecDAO): the units of work running at the same time are never more
\* than the max_workers of the executor, and every call of DAO.access is in
\* the work queue, or running, or has its future resolved: none is rejected
\* and none is lost.
C20_PoolBound ==
    /\ Cardinality(Busy) <= PoolSize
    /\ \A id \in 1..Len(submitted) :
          LET queued == \E i \in 1..Len(executor.work_queue) : executor.work_queue[i] = id
              running == \E t \in Busy : worker[t].id = id
              resolved == future[id].state # "pending"
          IN  /\ queued \/ running \/ resolved
              /\ ~(queued /\ running) /\ ~(queued /\ resolved) /\ ~(running /\ resolved)

\* every thread the executor may have is running a unit of work, and a call
\* made meanwhile waits in the work queue
C20_Witness ==
    /\ Cardinality(Busy) = PoolSize
    /\ executor.work_queue # <<>>

\* C21 (SpecDAOFair): when every unit of work ends and the executor threads
\* are scheduled fairly, every call of DAO.access has its unit of work called
\* and its future resolved at some time; and a future is resolved only by the
\* step in which its unit of work, called once, leaves DAO._access.
C21_EventuallyResolved ==
    /\ \A id \in 1..MaxUnits :
          (Len(submitted) >= id)
              ~> (Len(submitted) >= id /\ calls[id] = 1 /\ future[id].state # "pending")
    /\ [][\A id \in 1..Len(submitted) :
              (future[id].state = "pending" /\ future'[id].state # "pending")
              => (/\ calls[id] = 1
                  /\ \E t \in Busy : worker[t].id = id /\ worker'[t] = Idle)]_vars

\* all the calls the model allows have been made and every future is
\* resolved, one of them by an exception, with every thread of the executor
\* started
C21_Witness ==
    /\ Len(submitted) = MaxUnits
    /\ executor.num_threads = PoolSize
    /\ \A id \in 1..Len(submitted) : future[id].state # "pending"
    /\ \E id \in 1..Len(submitted) : future[id].state = "failed"

\* C22 (Spec): over any sequence of operations the User, GroupChat and
\* P2PMessage rows only grow, and a GroupChatMembers or GroupChatMessage row
\* disappears only in a del_from_group_chat that returns success.
C22_OnlyDelDeletes ==
    [][/\ User \subseteq User'
       /\ GroupChat \subseteq GroupChat'
       /\ P2PMessage \subseteq P2PMessage'
       /\ (~(GroupChatMembers \subseteq GroupChatMembers')
              \/ ~(GroupChatMessage \subseteq GroupChatMessage'))
          => (/\ last'.op = "del_from_group_chat"
              /\ ~last'.raised
              /\ last'.status)]_vars

\* a del_from_group_chat has succeeded on a chat with two members: the row
\* of its user is gone, the row of the other member is there
C22_Witness ==
    /\ last.op = "del_from_group_chat"
    /\ ~last.raised
    /\ last.status
    /\ Cardinality(GroupChatMembers) < autoinc.GroupChatMembers - 1
    /\ ~\E m \in GroupChatMembers :
           m.user_id = last.args[2] /\ m.group_chat_id = last.args[1]
    /\ \E m \in GroupChatMembers : m.group_chat_id = last.args[1]

\* C25 (Spec): an add_to_group_chat whose users list names a user more than
\* once inserts at most one GroupChatMembers row for that user, and the ids
\* it returns, built from the set of the ids added, hold the user at most
\* once: they are the users of the rows inserted, one row each.
C25_DuplicateIdsOneRow ==
    [][(/\ last'.op = "add_to_group_chat"
        /\ Len(last'.args[2]) > Cardinality(Range(last'.args[2])))
       => LET inserted == GroupChatMembers' \ GroupChatMembers
          IN  /\ \A u \in Range(last'.args[2]) :
                    Cardinality({m \in inserted : m.user_id = u}) <= 1
              /\ (~last'.raised /\ last'.status)
                 => (/\ Cardinality(last'.data) = Cardinality(inserted)
                     /\ last'.data = {m.user_id : m \in inserted})]_vars

\* an add that named one user twice succeeded and returned that user, who
\* has one row in the chat
C25_Witness ==
    /\ last.op = "add_to_group_chat"
    /\ ~last.raised
    /\ last.status
    /\ Len(last.args[2]) = 2
    /\ last.args[2][1] = last.args[2][2]
    /\ last.data = {last.args[2][1]}
    /\ Cardinality({m \in GroupChatMembers :
           m.user_id = last.args[2][1] /\ m.group_chat_id = last.args[1]}) = 1

StartStep == last'.op = "start"

\* C24 (SpecServer): a call of start() returns True exactly when it is the
\* call that set the started flag, and returns False when the flag was set
\* before it; a start() made when the server is started makes no runner and
\* no site and leaves the current ones in place; when the site fails to
\* start, the call raises and the flag stays False.
C24_StartResult ==
    [][StartStep =>
          /\ (~last'.raised /\ last'.data = TRUE) <=> (~started /\ started')
          /\ started => (/\ ~last'.raised
                         /\ last'.data = FALSE
                         /\ runners' = runners
                         /\ sites' = sites
                         /\ app_runner' = app_runner
                         /\ app_site' = app_site)
          /\ (~started /\ sites'[Len(sites')].state = "failed")
                => (last'.raised /\ ~started')]_vars

C24_Witness ==
    /\ started
    /\ last.op = "start" /\ ~last.raised /\ last.data = FALSE
    /\ Len(runners) >= 2
    /\ sites[1].state = "failed"
    /\ Up

Cleaned == app_runner # 0 /\ runners[app_runner].state = "cleaned"

\* C26 (SpecServer): the started flag, once True, stays True; stop() cleans
\* the runner up and leaves the flag as it was; a start() made after a stop()
\* of the started server returns False and leaves the server down.
C26_StartedForever ==
    [][/\ started => started'
       /\ last'.op = "stop" => (/\ started' = started
                                /\ started => Cleaned')
       /\ (StartStep /\ started /\ Cleaned)
             => (~last'.raised /\ last'.data = FALSE /\ ~Up' /\ Cleaned')]_vars

C26_Witness ==
    /\ started
    /\ Cleaned
    /\ ~Up
    /\ last.op = "start" /\ ~last.raised /\ last.data = FALSE
    /\ Len(runners) = 1

====
